---------------------------- MODULE Spec2Model ----------------------------
(***************************************************************************)
(* A model of rigma/geometrize: the Heatmap accumulator                    *)
(* (src/libgeometrize/images/heatmap.rs) and the validity predicates of    *)
(* the shapes (rectangle.rs, polygon.rs, ellipse.rs).                      *)
(*                                                                         *)
(* Conventions                                                             *)
(*  - A Heatmap is the record [inner, width, height] of the struct; inner  *)
(*    is the Vec<u64> as a sequence (Rust index i is TLA+ index i + 1).    *)
(*  - u32 arithmetic keeps its 32-bit width: MulU32 and AddU32 compute the *)
(*    wrapped result and the overflow flag through 16-bit halves, so that   *)
(*    no intermediate value leaves the range of the model checker's        *)
(*    integers.  Rust panics on overflow when the build has overflow       *)
(*    checks (debug profile) and wraps otherwise (release profile); the    *)
(*    variable overflow_checks is the profile of the build.                *)
(*  - u64 magnitudes are kept at or below MaxCell by the guards of the     *)
(*    actions, far from 2^64.                                              *)
(*  - A call that panics is recorded as Panic(..) in `last`.               *)
(***************************************************************************)
EXTENDS Integers, Sequences, FiniteSets, TLC

VARIABLES
    overflow_checks,  \* build profile: TRUE = overflow checks on (debug)
    heatmap,          \* the Heatmap value the caller holds
    last,             \* the last Heatmap call: its name, arguments, receiver before the call, outcome
    builder,          \* the shape under construction: a RectangleBuilder, an EllipseBuilder,
                      \* or the Vec<Point> a Polygon is made from
    shape,            \* the shape built
    answer            \* the last predicate asked of the shape, and its result

heatVars == <<overflow_checks, heatmap, last>>
shapeVars == <<builder, shape, answer>>
vars == <<overflow_checks, heatmap, last, builder, shape, answer>>

---------------------------------------------------------------------------
(* Bounds of the model *)

\* Largest ordinary width and height handed to new / from_fn.
MaxDim == 2
\* Largest magnitude a cell is driven to.
MaxCell == 2
\* Largest coordinate handed to get_pixel / get_pixel_mut.
MaxCoord == 3

---------------------------------------------------------------------------
(* u32 arithmetic *)

Half == 2^16

Min(a, b) == IF a < b THEN a ELSE b

\* a * b on u32: [value: the product modulo 2^32, overflow: the product is >= 2^32].
\* (a1*Half + a0) * (b1*Half + b0) = a1*b1*2^32 + (a1*b0 + a0*b1)*Half + a0*b0.
MulU32(a, b) ==
    LET a1 == a \div Half
        a0 == a % Half
        b1 == b \div Half
        b0 == b % Half
        low == a0 * b0
        mid == a1 * b0 + a0 * b1 + (low \div Half)
    IN  [value |-> (mid % Half) * Half + (low % Half),
         overflow |-> (a1 * b1 # 0) \/ (mid >= Half)]

\* a + b on u32, likewise.
AddU32(a, b) ==
    LET lo == (a % Half) + (b % Half)
        hi == (a \div Half) + (b \div Half) + (lo \div Half)
    IN  [value |-> (hi % Half) * Half + (lo % Half),
         overflow |-> hi >= Half]

---------------------------------------------------------------------------
(* Outcomes of a call *)

Ok(v) == [tag |-> "ok", val |-> v]
Panic(why) == [tag |-> "panic", why |-> why]
Some(v) == [tag |-> "some", val |-> v]
None == [tag |-> "none"]

IsOk(r) == r.tag = "ok"
IsPanic(r) == r.tag = "panic"

---------------------------------------------------------------------------
(* The closures handed to from_fn *)

Closures == {"x_pow_y", "x", "x_plus_y"}

\* f(x, y) for the closure named f.
Apply(f, x, y) ==
    CASE f = "x_pow_y" -> (IF y = 0 THEN 1 ELSE x ^ y)
      [] f = "x" -> x
      [] f = "x_plus_y" -> x + y

---------------------------------------------------------------------------
(* Heatmap *)

\* vec![0; n]
Zeros(n) == [i \in 1..n |-> 0]

\* Heatmap::new
Heatmap_new(checks, width, height) ==
    LET n == MulU32(width, height)
    IN  IF n.overflow /\ checks
        THEN Panic("overflow")
        ELSE Ok([inner |-> Zeros(n.value), width |-> width, height |-> height])

\* The arguments from_fn hands to f, in order: idx in 0..inner.capacity().
FromFnCalls(width, n) ==
    [i \in 1..n |-> <<(i - 1) % width, (i - 1) \div width>>]

\* Heatmap::from_fn
Heatmap_from_fn(checks, width, height, f) ==
    LET n == MulU32(width, height)
    IN  IF n.overflow /\ checks
        THEN Panic("overflow")
        ELSE LET calls == FromFnCalls(width, n.value)
             IN  Ok([inner |-> [i \in 1..n.value |-> Apply(f, calls[i][1], calls[i][2])],
                     width |-> width, height |-> height])

\* The index expression (y * self.width + x) as usize, with the slice's bounds
\* check: Ok(i) for the Rust index i, or the panic.
CellIndex(checks, self, x, y) ==
    LET m == MulU32(y, self.width)
        s == AddU32(m.value, x)
    IN  IF checks /\ (m.overflow \/ s.overflow)
        THEN Panic("overflow")
        ELSE IF s.value >= Len(self.inner)
             THEN Panic("index")
             ELSE Ok(s.value)

\* Heatmap::get_pixel: Ok(Some(cell)), Ok(None), or the panic.
get_pixel(checks, self, x, y) ==
    IF x < self.width /\ y < self.height
    THEN LET i == CellIndex(checks, self, x, y)
         IN  IF IsPanic(i) THEN i ELSE Ok(Some(self.inner[i.val + 1]))
    ELSE Ok(None)

\* Heatmap::get_pixel_mut: Ok(Some(i)) stands for the reference to inner[i].
get_pixel_mut(checks, self, x, y) ==
    IF x < self.width /\ y < self.height
    THEN LET i == CellIndex(checks, self, x, y)
         IN  IF IsPanic(i) THEN i ELSE Ok(Some(i.val))
    ELSE Ok(None)

\* Heatmap::clear
clear(checks, self) ==
    LET n == MulU32(self.width, self.height)
    IN  IF n.overflow /\ checks
        THEN Panic("overflow")
        ELSE Ok([self EXCEPT !.inner = Zeros(n.value)])

\* impl Add for Heatmap (and the body of add_assign, which is the same).
Heatmap_add(checks, self, other) ==
    LET width == Min(self.width, other.width)
        height == Min(self.height, other.height)
        n == MulU32(width, height)
    IN  IF n.overflow /\ checks
        THEN Panic("overflow")
        ELSE IF n.value > Len(self.inner) \/ n.value > Len(other.inner)
             THEN Panic("index")
             ELSE Ok([inner |-> [i \in 1..n.value |-> self.inner[i] + other.inner[i]],
                      width |-> width, height |-> height])

\* Heatmap::max_heat: the fold over inner, from cell i on, with accumulator max.
RECURSIVE max_heat_fold(_, _, _)
max_heat_fold(inner, i, max) ==
    IF i > Len(inner)
    THEN max
    ELSE max_heat_fold(inner, i + 1, IF inner[i] > max THEN inner[i] ELSE max)

max_heat(self) == max_heat_fold(self.inner, 1, 0)

\* The f64 value 255.0 * (cell / max).powf(gamma) for a whole gamma, as the
\* fraction num / den; den = 0 is NaN (0.0 / 0.0 when every cell is zero).  For the
\* magnitudes and exponents of the model the f64 operations lose nothing that
\* decides the integer part.
ScaledPx(cell, max, gamma) ==
    [num |-> 255 * (cell ^ gamma), den |-> max ^ gamma]

\* `q as u8` for q >= 0: truncation toward zero, saturating, NaN to 0.
AsU8(q) == IF q.den = 0 THEN 0 ELSE Min(q.num \div q.den, 255)

\* `q as u16`, likewise.
AsU16(q) == IF q.den = 0 THEN 0 ELSE Min(q.num \div q.den, 65535)

\* The coordinates of a width x height raster.
RasterCoords(width, height) == (0..(width - 1)) \X (0..(height - 1))

\* Heatmap::to_luma8.  GrayImage::from_fn calls the closure for every pixel of a
\* width x height raster; the closure indexes inner at y * width + x.  When
\* width * height does not fit in 32 bits, inner has fewer cells than the raster
\* has pixels and the closure indexes past its end.
to_luma8(checks, self, gamma) ==
    LET max == max_heat(self)
        n == MulU32(self.width, self.height)
        idx(p) == CellIndex(checks, self, p[1], p[2])
    IN  IF n.overflow
        THEN Panic("index")
        ELSE IF \E p \in RasterCoords(self.width, self.height) : IsPanic(idx(p))
             THEN Panic("index")
             ELSE Ok([width |-> self.width, height |-> self.height,
                      px |-> [p \in RasterCoords(self.width, self.height) |->
                                AsU8(ScaledPx(self.inner[idx(p).val + 1], max, gamma))]])

\* Heatmap::to_luma16
to_luma16(checks, self, gamma) ==
    LET max == max_heat(self)
        n == MulU32(self.width, self.height)
        idx(p) == CellIndex(checks, self, p[1], p[2])
    IN  IF n.overflow
        THEN Panic("index")
        ELSE IF \E p \in RasterCoords(self.width, self.height) : IsPanic(idx(p))
             THEN Panic("index")
             ELSE Ok([width |-> self.width, height |-> self.height,
                      px |-> [p \in RasterCoords(self.width, self.height) |->
                                AsU16(ScaledPx(self.inner[idx(p).val + 1], max, gamma))]])

---------------------------------------------------------------------------
(* Inputs *)

\* The gamma factors handed to to_luma8 / to_luma16 (1.0 and 2.0).
Gammas == {1, 2}

\* Dimensions whose product does not fit in 32 bits:
\* 65536 * 65536 = 2^32 and 3 * 1431655766 = 2^32 + 2.
WideDims == {<<65536, 65536>>, <<3, 1431655766>>}

Dims == ((0..MaxDim) \X (0..MaxDim)) \cup WideDims

Coords == 0..MaxCoord

Cells == 0..MaxCell

\* The heatmaps a caller can hold as the right operand of + and +=.
Operands ==
    { r.val : r \in { q \in { Heatmap_from_fn(overflow_checks, d[1], d[2], f) :
                                d \in Dims, f \in Closures } : IsOk(q) } }

---------------------------------------------------------------------------
(* The caller *)

\* No shape is in use.
ShapeIdle ==
    /\ builder = [kind |-> "none"]
    /\ shape = [kind |-> "none"]
    /\ answer = [op |-> "none"]

Init ==
    /\ ShapeIdle
    /\ overflow_checks \in BOOLEAN
    /\ \E d \in Dims :
         LET r == Heatmap_new(overflow_checks, d[1], d[2])
         IN  /\ IsOk(r)
             /\ heatmap = r.val
             /\ last = [op |-> "new", width |-> d[1], height |-> d[2], out |-> r]

\* let heatmap = Heatmap::new(width, height);
CallNew(width, height) ==
    LET r == Heatmap_new(overflow_checks, width, height)
    IN  /\ heatmap' = IF IsOk(r) THEN r.val ELSE heatmap
        /\ last' = [op |-> "new", width |-> width, height |-> height, out |-> r]
        /\ UNCHANGED <<overflow_checks, shapeVars>>

\* let heatmap = Heatmap::from_fn(width, height, f);
CallFromFn(width, height, f) ==
    LET r == Heatmap_from_fn(overflow_checks, width, height, f)
    IN  /\ heatmap' = IF IsOk(r) THEN r.val ELSE heatmap
        /\ last' = [op |-> "from_fn", width |-> width, height |-> height, f |-> f,
                    calls |-> FromFnCalls(width, MulU32(width, height).value),
                    out |-> r]
        /\ UNCHANGED <<overflow_checks, shapeVars>>

\* heatmap.get_pixel(x, y)
CallGetPixel(x, y) ==
    /\ last' = [op |-> "get_pixel", x |-> x, y |-> y,
                out |-> get_pixel(overflow_checks, heatmap, x, y)]
    /\ UNCHANGED <<overflow_checks, heatmap, shapeVars>>

\* if let Some(px) = heatmap.get_pixel_mut(x, y) { *px = v; }
CallGetPixelMut(x, y, v) ==
    LET r == get_pixel_mut(overflow_checks, heatmap, x, y)
    IN  /\ heatmap' = IF IsOk(r) /\ r.val.tag = "some"
                      THEN [heatmap EXCEPT !.inner[r.val.val + 1] = v]
                      ELSE heatmap
        /\ last' = [op |-> "get_pixel_mut", x |-> x, y |-> y, v |-> v, out |-> r]
        /\ UNCHANGED <<overflow_checks, shapeVars>>

\* heatmap.clear()
CallClear ==
    LET r == clear(overflow_checks, heatmap)
    IN  /\ heatmap' = IF IsOk(r) THEN r.val ELSE [heatmap EXCEPT !.inner = <<>>]
        /\ last' = [op |-> "clear", prev |-> heatmap, out |-> r]
        /\ UNCHANGED <<overflow_checks, shapeVars>>

\* The cap on the magnitudes: every cell of h is at most MaxCell.
Capped(h) == \A i \in 1..Len(h.inner) : h.inner[i] <= MaxCell

\* let heatmap = heatmap + other;
CallAdd(other) ==
    LET r == Heatmap_add(overflow_checks, heatmap, other)
    IN  /\ IsOk(r) => Capped(r.val)
        /\ heatmap' = IF IsOk(r) THEN r.val ELSE heatmap
        /\ last' = [op |-> "add", prev |-> heatmap, other |-> other, out |-> r]
        /\ UNCHANGED <<overflow_checks, shapeVars>>

\* heatmap += other;
CallAddAssign(other) ==
    LET r == Heatmap_add(overflow_checks, heatmap, other)
    IN  /\ IsOk(r) => Capped(r.val)
        /\ heatmap' = IF IsOk(r) THEN r.val ELSE heatmap
        /\ last' = [op |-> "add_assign", prev |-> heatmap, other |-> other, out |-> r]
        /\ UNCHANGED <<overflow_checks, shapeVars>>

\* let image = heatmap.to_luma8(gamma);
CallToLuma8(gamma) ==
    /\ last' = [op |-> "to_luma8", gamma |-> gamma, prev |-> heatmap,
                out |-> to_luma8(overflow_checks, heatmap, gamma)]
    /\ UNCHANGED <<overflow_checks, heatmap, shapeVars>>

\* let image = heatmap.to_luma16(gamma);
CallToLuma16(gamma) ==
    /\ last' = [op |-> "to_luma16", gamma |-> gamma, prev |-> heatmap,
                out |-> to_luma16(overflow_checks, heatmap, gamma)]
    /\ UNCHANGED <<overflow_checks, heatmap, shapeVars>>

Next ==
    \/ \E d \in Dims : CallNew(d[1], d[2])
    \/ \E d \in Dims, f \in Closures : CallFromFn(d[1], d[2], f)
    \/ \E x \in Coords, y \in Coords : CallGetPixel(x, y)
    \/ \E x \in Coords, y \in Coords, v \in Cells : CallGetPixelMut(x, y, v)
    \/ CallClear
    \/ \E other \in Operands : CallAdd(other)
    \/ \E other \in Operands : CallAddAssign(other)
    \/ \E gamma \in Gammas : CallToLuma8(gamma)
    \/ \E gamma \in Gammas : CallToLuma16(gamma)

Spec == Init /\ [][Next]_vars

---------------------------------------------------------------------------
(* f64 values of the shapes *)
(*                                                                         *)
(* The sides of a rectangle and the coordinates of a point are f64 values  *)
(* that are whole numbers, written as integers; sums, differences and       *)
(* products of the small ones used here are exact in f64.                   *)

\* No Heatmap is in use.
HeatIdle ==
    /\ overflow_checks = FALSE
    /\ heatmap = [inner |-> <<>>, width |-> 0, height |-> 0]
    /\ last = [op |-> "none"]

\* Point::new
Point_new(x, y) == [x |-> x, y |-> y]

\* The f64 comparison n / d <= c for whole n and d and c > 0, with IEEE 754
\* division: x / 0.0 is +infinity for x > 0, -infinity for x < 0 and NaN for
\* x = 0; every comparison with NaN is false.
DivLe(n, d, c) ==
    CASE d > 0 -> n <= c * d
      [] d < 0 -> n >= c * d
      [] OTHER -> n < 0

---------------------------------------------------------------------------
(* Rectangle *)

MAX_ASPECT_RATIO == 5

\* RectangleBuilder::default (what Rectangle::new returns)
RectangleBuilder_default ==
    [kind |-> "RectangleBuilder", origin |-> <<0, 0>>, scaling |-> <<1, 1>>, angle |-> 0]

\* RectangleBuilder::build
RectangleBuilder_build(self) ==
    [kind |-> "Rectangle", origin |-> Point_new(self.origin[1], self.origin[2]),
     scaling |-> self.scaling, angle |-> self.angle]

\* A bug is_valid could have: the boundary ratio excluded.
Rectangle_is_valid_strict(self) ==
    LET wh == IF self.scaling[1] < self.scaling[2]
              THEN <<self.scaling[2], self.scaling[1]>>
              ELSE self.scaling
    IN  DivLe(wh[1], wh[2], MAX_ASPECT_RATIO) /\ wh[1] # MAX_ASPECT_RATIO * wh[2]

\* impl Shape for Rectangle: is_valid
Rectangle_is_valid(self) ==
    LET wh == IF self.scaling[1] < self.scaling[2]
              THEN <<self.scaling[2], self.scaling[1]>>
              ELSE self.scaling
    IN  DivLe(wh[1], wh[2], MAX_ASPECT_RATIO)

\* Largest side handed to the builder, beside the sides of the repository's tests.
MaxSide == 6

Sides == ((0 - MaxSide)..MaxSide) \cup {25, 30}

Origins == {<<0, 0>>, <<1, 2>>}

Angles == {0, 1}

RectInit ==
    /\ HeatIdle
    /\ builder = RectangleBuilder_default
    /\ shape = [kind |-> "none"]
    /\ answer = [op |-> "none"]

\* Rectangle::new(), for the next rectangle
RectangleNew ==
    /\ shape.kind = "Rectangle"
    /\ builder' = RectangleBuilder_default
    /\ shape' = [kind |-> "none"]
    /\ answer' = [op |-> "none"]
    /\ UNCHANGED heatVars

\* .origin(x, y)
RectangleOrigin(x, y) ==
    /\ builder.kind = "RectangleBuilder"
    /\ builder' = [builder EXCEPT !.origin = <<x, y>>]
    /\ UNCHANGED <<shape, answer, heatVars>>

\* .aspect(width, height)
RectangleAspect(width, height) ==
    /\ builder.kind = "RectangleBuilder"
    /\ builder' = [builder EXCEPT !.scaling = <<width, height>>]
    /\ UNCHANGED <<shape, answer, heatVars>>

\* .width(width)
RectangleWidth(width) ==
    /\ builder.kind = "RectangleBuilder"
    /\ builder' = [builder EXCEPT !.scaling[1] = width]
    /\ UNCHANGED <<shape, answer, heatVars>>

\* .height(height)
RectangleHeight(height) ==
    /\ builder.kind = "RectangleBuilder"
    /\ builder' = [builder EXCEPT !.scaling[2] = height]
    /\ UNCHANGED <<shape, answer, heatVars>>

\* .angle(angle)
RectangleAngle(angle) ==
    /\ builder.kind = "RectangleBuilder"
    /\ builder' = [builder EXCEPT !.angle = angle]
    /\ UNCHANGED <<shape, answer, heatVars>>

\* .build(): the builder is moved into the rectangle
RectangleBuilt ==
    /\ builder.kind = "RectangleBuilder"
    /\ shape' = RectangleBuilder_build(builder)
    /\ builder' = [kind |-> "moved"]
    /\ UNCHANGED <<answer, heatVars>>

\* r.is_valid()
CallRectangleIsValid ==
    /\ shape.kind = "Rectangle"
    /\ answer' = [op |-> "is_valid", result |-> Rectangle_is_valid(shape)]
    /\ UNCHANGED <<builder, shape, heatVars>>

RectNext ==
    \/ RectangleNew
    \/ \E o \in Origins : RectangleOrigin(o[1], o[2])
    \/ \E w \in Sides, h \in Sides : RectangleAspect(w, h)
    \/ \E w \in Sides : RectangleWidth(w)
    \/ \E h \in Sides : RectangleHeight(h)
    \/ \E a \in Angles : RectangleAngle(a)
    \/ RectangleBuilt
    \/ CallRectangleIsValid

SpecRectangle == RectInit /\ [][RectNext]_vars

---------------------------------------------------------------------------
(* Point, Vector *)

\* impl ops::Sub for Point: self - other, a Vector
Point_sub(self, other) == [x |-> other.x - self.x, y |-> other.y - self.y]

\* impl ops::Add<Vector> for Point: self + other, a Point
Point_add(self, other) == [x |-> self.x + other.x, y |-> self.y + other.y]

\* Vector::cross: the signed cross product of two plane vectors.
cross(u, v) == u.x * v.y - u.y * v.x

---------------------------------------------------------------------------
(* Polygon *)

\* Polygon::new, From<Vec<Point>>
Polygon_new(vertices) == [kind |-> "Polygon", vertices |-> vertices]

\* Polygon::order
Polygon_order(self) == Len(self.vertices)

\* self.vertices[i] for the Rust index i
Vertex(self, i) == self.vertices[i + 1]

\* Polygon::is_valid
Polygon_is_valid(self) ==
    LET order == Polygon_order(self)
        sign == LET u == Point_sub(Vertex(self, 1), Vertex(self, 0))
                    v == Point_sub(Vertex(self, 2), Vertex(self, 1))
                IN  cross(u, v) > 0
        turn(idx) == LET i == idx % order
                         j == (idx + 1) % order
                         k == (idx + 2) % order
                         u == Point_sub(Vertex(self, j), Vertex(self, i))
                         v == Point_sub(Vertex(self, k), Vertex(self, j))
                     IN  cross(u, v)
    IN  IF order < 3
        THEN FALSE
        ELSE \A idx \in 1..(order - 1) : (turn(idx) > 0) = sign

\* Largest coordinate of a vertex.
MaxPoint == 2
\* Largest number of vertices.
MaxOrder == 4

Points == {Point_new(x, y) : x \in 0..MaxPoint, y \in 0..MaxPoint}

PolyInit ==
    /\ HeatIdle
    /\ builder = [kind |-> "Vec", points |-> <<>>]
    /\ shape = [kind |-> "none"]
    /\ answer = [op |-> "none"]

\* Vec::new(), for the next polygon
PolygonVecNew ==
    /\ shape.kind = "Polygon"
    /\ builder' = [kind |-> "Vec", points |-> <<>>]
    /\ shape' = [kind |-> "none"]
    /\ answer' = [op |-> "none"]
    /\ UNCHANGED heatVars

\* vertices.push(p)
PolygonVecPush(p) ==
    /\ builder.kind = "Vec"
    /\ Len(builder.points) < MaxOrder
    /\ builder' = [builder EXCEPT !.points = Append(@, p)]
    /\ UNCHANGED <<shape, answer, heatVars>>

\* Polygon::from(vertices): the vector is moved into the polygon
PolygonFrom ==
    /\ builder.kind = "Vec"
    /\ shape' = Polygon_new(builder.points)
    /\ builder' = [kind |-> "moved"]
    /\ UNCHANGED <<answer, heatVars>>

\* polygon.is_valid()
CallPolygonIsValid ==
    /\ shape.kind = "Polygon"
    /\ answer' = [op |-> "is_valid", result |-> Polygon_is_valid(shape)]
    /\ UNCHANGED <<builder, shape, heatVars>>

PolyNext ==
    \/ PolygonVecNew
    \/ \E p \in Points : PolygonVecPush(p)
    \/ PolygonFrom
    \/ CallPolygonIsValid

SpecPolygon == PolyInit /\ [][PolyNext]_vars

---------------------------------------------------------------------------
(* Ellipse *)
(*                                                                         *)
(* A semi-axis or a centre coordinate is the f64 value                      *)
(* whole + half_eps * 2^-53, written [whole, half_eps]; f64::EPSILON is     *)
(* 2^-52, two of these steps.  The values used are f64 values (the spacing  *)
(* of f64 is 2^-53 just below 1.0 and 2^-52 just above), and the difference *)
(* of two of them is exact or far from EPSILON.                             *)

F64(whole, half_eps) == [whole |-> whole, half_eps |-> half_eps]

\* f64::EPSILON
EPSILON == F64(0, 2)

\* a - b on f64
F64Sub(a, b) == F64(a.whole - b.whole, a.half_eps - b.half_eps)

\* a < b on f64
F64Lt(a, b) ==
    \/ a.whole < b.whole
    \/ a.whole = b.whole /\ a.half_eps < b.half_eps

\* EllipseBuilder::default (what Ellipse::new returns)
EllipseBuilder_default ==
    [kind |-> "EllipseBuilder", u |-> F64(0, 0), v |-> F64(0, 0),
     a |-> F64(0, 0), b |-> F64(0, 0), angle |-> None]

\* EllipseBuilder::build
EllipseBuilder_build(self) ==
    [kind |-> "Ellipse", u |-> self.u, v |-> self.v, a |-> self.a, b |-> self.b,
     angle |-> self.angle]

\* Ellipse::random
Ellipse_random ==
    [kind |-> "Ellipse", u |-> F64(0, 0), v |-> F64(0, 0),
     a |-> F64(1, 0), b |-> F64(1, 0), angle |-> None]

\* Ellipse::random_rotated
Ellipse_random_rotated ==
    [kind |-> "Ellipse", u |-> F64(0, 0), v |-> F64(0, 0),
     a |-> F64(1, 0), b |-> F64(1, 0), angle |-> Some(F64(0, 0))]

\* Ellipse::is_circle
is_circle(self) == F64Lt(F64Sub(self.a, self.b), EPSILON)

\* Ellipse::is_rotated
is_rotated(self) == self.angle.tag = "some"

\* The semi-axes handed to the builder: 0, 2^-53, 1 - 2^-53, 1, 1 + 2^-52,
\* 1 + 2^-51 and 2.
Axes == {F64(0, 0), F64(0, 1), F64(1, -1), F64(1, 0), F64(1, 2), F64(1, 4), F64(2, 0)}

Centres == {F64(0, 0), F64(1, 0)}

EllipseAngles == {F64(0, 0), F64(1, 0)}

EllipseInit ==
    /\ HeatIdle
    /\ builder = EllipseBuilder_default
    /\ shape = [kind |-> "none"]
    /\ answer = [op |-> "none"]

\* Ellipse::new(), for the next ellipse
EllipseNew ==
    /\ shape.kind = "Ellipse"
    /\ builder' = EllipseBuilder_default
    /\ shape' = [kind |-> "none"]
    /\ answer' = [op |-> "none"]
    /\ UNCHANGED heatVars

\* .u(u)
EllipseU(u) ==
    /\ builder.kind = "EllipseBuilder"
    /\ builder' = [builder EXCEPT !.u = u]
    /\ UNCHANGED <<shape, answer, heatVars>>

\* .v(v)
EllipseV(v) ==
    /\ builder.kind = "EllipseBuilder"
    /\ builder' = [builder EXCEPT !.v = v]
    /\ UNCHANGED <<shape, answer, heatVars>>

\* .a(a)
EllipseA(a) ==
    /\ builder.kind = "EllipseBuilder"
    /\ builder' = [builder EXCEPT !.a = a]
    /\ UNCHANGED <<shape, answer, heatVars>>

\* .b(b)
EllipseB(b) ==
    /\ builder.kind = "EllipseBuilder"
    /\ builder' = [builder EXCEPT !.b = b]
    /\ UNCHANGED <<shape, answer, heatVars>>

\* .angle(angle)
EllipseAngle(angle) ==
    /\ builder.kind = "EllipseBuilder"
    /\ builder' = [builder EXCEPT !.angle = Some(angle)]
    /\ UNCHANGED <<shape, answer, heatVars>>

\* .build(): the builder is moved into the ellipse
EllipseBuilt ==
    /\ builder.kind = "EllipseBuilder"
    /\ shape' = EllipseBuilder_build(builder)
    /\ builder' = [kind |-> "moved"]
    /\ UNCHANGED <<answer, heatVars>>

\* let ellipse = Ellipse::random();
CallEllipseRandom ==
    /\ builder.kind = "EllipseBuilder"
    /\ shape' = Ellipse_random
    /\ builder' = [kind |-> "moved"]
    /\ UNCHANGED <<answer, heatVars>>

\* let ellipse = Ellipse::random_rotated();
CallEllipseRandomRotated ==
    /\ builder.kind = "EllipseBuilder"
    /\ shape' = Ellipse_random_rotated
    /\ builder' = [kind |-> "moved"]
    /\ UNCHANGED <<answer, heatVars>>

\* ellipse.is_circle()
CallEllipseIsCircle ==
    /\ shape.kind = "Ellipse"
    /\ answer' = [op |-> "is_circle", result |-> is_circle(shape)]
    /\ UNCHANGED <<builder, shape, heatVars>>

\* ellipse.is_rotated()
CallEllipseIsRotated ==
    /\ shape.kind = "Ellipse"
    /\ answer' = [op |-> "is_rotated", result |-> is_rotated(shape)]
    /\ UNCHANGED <<builder, shape, heatVars>>

EllipseNext ==
    \/ EllipseNew
    \/ \E u \in Centres : EllipseU(u)
    \/ \E v \in Centres : EllipseV(v)
    \/ \E a \in Axes : EllipseA(a)
    \/ \E b \in Axes : EllipseB(b)
    \/ \E angle \in EllipseAngles : EllipseAngle(angle)
    \/ EllipseBuilt
    \/ CallEllipseRandom
    \/ CallEllipseRandomRotated
    \/ CallEllipseIsCircle
    \/ CallEllipseIsRotated

SpecEllipse == EllipseInit /\ [][EllipseNext]_vars

---------------------------------------------------------------------------
(* Triangle *)
(*                                                                         *)
(* An inner angle is compared with MIN_INTERNAL_ANGLE, 15 degrees, through  *)
(* its cosine: for vectors u, v of whole coordinates the angle between them *)
(* is at least 15 degrees exactly when u.v <= 0 or                          *)
(* (u.v)^2 <= cos^2(15 deg) * (u.u) * (v.v), with cos^2(15 deg) =           *)
(* (2 + sqrt 3) / 4.  No angle between vectors of whole coordinates is      *)
(* 15 degrees, and on the coordinates used here the nearest one is a        *)
(* quarter of a degree away, far more than the error of q_rsqrt and acos.   *)

\* Vector::dot
dot(u, v) == u.x * v.x + u.y * v.y

\* u.normalize().dot(&v.normalize()).acos().to_degrees() >= MIN_INTERNAL_ANGLE.
\* q_rsqrt(0.0) is finite, so the zero vector normalizes to the zero vector
\* and the angle computed with it is acos(0.0), 90 degrees.
InternalAngleOk(u, v) ==
    LET uu == dot(u, u)
        vv == dot(v, v)
        d == dot(u, v)
        l == 4 * d * d - 2 * uu * vv
    IN  \/ uu = 0
        \/ vv = 0
        \/ d <= 0
        \/ l <= 0
        \/ l * l <= 3 * uu * vv * uu * vv

\* Triangle::new
Triangle_new(a, b, c) == [kind |-> "Triangle", vertices |-> <<a, b, c>>]

\* Triangle::is_valid.  a3 = 180.0 - a2 - a1 is the angle at vertices[2] when
\* the three vertices are not on a line; when they are and a1, a2 pass, both
\* are 90 degrees (vertices[0] = vertices[1]) and a3 is 0.
Triangle_is_valid(self) ==
    LET a1 == LET u == Point_sub(Vertex(self, 1), Vertex(self, 0))
                  v == Point_sub(Vertex(self, 2), Vertex(self, 0))
              IN  InternalAngleOk(u, v)
        a2 == LET u == Point_sub(Vertex(self, 0), Vertex(self, 1))
                  v == Point_sub(Vertex(self, 2), Vertex(self, 1))
              IN  InternalAngleOk(u, v)
        a3 == LET u == Point_sub(Vertex(self, 0), Vertex(self, 2))
                  v == Point_sub(Vertex(self, 1), Vertex(self, 2))
              IN  u.x * v.y - u.y * v.x # 0 /\ InternalAngleOk(u, v)
    IN  a1 /\ a2 /\ a3

---------------------------------------------------------------------------
(* trait Shape *)

\* Shape::is_valid, the provided method of the trait
Shape_is_valid(self) == TRUE

\* <S as Shape>::is_valid, what a call through `S: Shape` or `dyn Shape`
\* runs: the method of `impl Shape for S` when the impl has one, the provided
\* method otherwise.  Only `impl Shape for Rectangle` has one.
Shape_dispatch(self) ==
    CASE self.kind = "Rectangle" -> Rectangle_is_valid(self)
      [] self.kind = "Ellipse" -> Shape_is_valid(self)
      [] self.kind = "Triangle" -> Shape_is_valid(self)
      [] self.kind = "Polygon" -> Shape_is_valid(self)

\* shape.is_valid() on the concrete type: an inherent method is taken before a
\* trait method.  Triangle and Polygon have an inherent is_valid.
Method_is_valid(self) ==
    CASE self.kind = "Rectangle" -> Shape_dispatch(self)
      [] self.kind = "Ellipse" -> Shape_dispatch(self)
      [] self.kind = "Triangle" -> Triangle_is_valid(self)
      [] self.kind = "Polygon" -> Polygon_is_valid(self)

\* Largest coordinate of a vertex of a triangle.
MaxVertex == 3

TrianglePoints == {Point_new(x, y) : x \in 0..MaxVertex, y \in 0..MaxVertex}

VertexLists == UNION {[1..n -> Points] : n \in 0..MaxOrder}

ShapeInit ==
    /\ HeatIdle
    /\ builder = [kind |-> "none"]
    /\ shape = [kind |-> "none"]
    /\ answer = [op |-> "none"]

\* Rectangle::new().aspect(width, height).build()
ShapeRectangle(width, height) ==
    /\ shape.kind = "none"
    /\ shape' = RectangleBuilder_build(
                    [RectangleBuilder_default EXCEPT !.scaling = <<width, height>>])
    /\ UNCHANGED <<builder, answer, heatVars>>

\* Ellipse::new().a(a).b(b).build()
ShapeEllipse(a, b) ==
    /\ shape.kind = "none"
    /\ shape' = EllipseBuilder_build(
                    [EllipseBuilder_default EXCEPT !.a = a, !.b = b])
    /\ UNCHANGED <<builder, answer, heatVars>>

\* Triangle::new(a, b, c)
ShapeTriangle(a, b, c) ==
    /\ shape.kind = "none"
    /\ shape' = Triangle_new(a, b, c)
    /\ UNCHANGED <<builder, answer, heatVars>>

\* Polygon::from(vertices)
ShapePolygon(vertices) ==
    /\ shape.kind = "none"
    /\ shape' = Polygon_new(vertices)
    /\ UNCHANGED <<builder, answer, heatVars>>

\* Shape::is_valid(&shape), as a function generic over `S: Shape` calls it
CallShapeIsValid ==
    /\ shape.kind # "none"
    /\ answer' = [op |-> "Shape::is_valid", result |-> Shape_dispatch(shape)]
    /\ UNCHANGED <<builder, shape, heatVars>>

\* shape.is_valid(), where the concrete type is known
CallMethodIsValid ==
    /\ shape.kind # "none"
    /\ answer' = [op |-> "is_valid", result |-> Method_is_valid(shape)]
    /\ UNCHANGED <<builder, shape, heatVars>>

\* the shape is dropped
ShapeDropped ==
    /\ shape.kind # "none"
    /\ shape' = [kind |-> "none"]
    /\ answer' = [op |-> "none"]
    /\ UNCHANGED <<builder, heatVars>>

ShapeNext ==
    \/ \E w \in Sides, h \in Sides : ShapeRectangle(w, h)
    \/ \E a \in Axes, b \in Axes : ShapeEllipse(a, b)
    \/ \E a \in TrianglePoints, b \in TrianglePoints, c \in TrianglePoints :
           ShapeTriangle(a, b, c)
    \/ \E vertices \in VertexLists : ShapePolygon(vertices)
    \/ CallShapeIsValid
    \/ CallMethodIsValid
    \/ ShapeDropped

SpecShape == ShapeInit /\ [][ShapeNext]_vars

---------------------------------------------------------------------------
(* Point arithmetic *)
(*                                                                         *)
(* shape holds the two points in scope and answer the value of the last    *)
(* expression evaluated on them.                                           *)

\* Largest absolute value of a coordinate of p and q.
MaxOffset == 2

Positions == {Point_new(x, y) : x \in (0 - MaxOffset)..MaxOffset,
                                y \in (0 - MaxOffset)..MaxOffset}

PointInit ==
    /\ HeatIdle
    /\ builder = [kind |-> "none"]
    /\ shape = [kind |-> "none"]
    /\ answer = [op |-> "none"]

\* let p = Point::new(..); let q = Point::new(..);
PointsNew(p, q) ==
    /\ shape.kind = "none"
    /\ shape' = [kind |-> "Points", p |-> p, q |-> q]
    /\ UNCHANGED <<builder, answer, heatVars>>

\* let v = p - q;
CallPointSub ==
    /\ shape.kind = "Points"
    /\ answer' = [op |-> "sub", result |-> Point_sub(shape.p, shape.q)]
    /\ UNCHANGED <<builder, shape, heatVars>>

\* q + v
CallPointAdd ==
    /\ shape.kind = "Points"
    /\ answer.op = "sub"
    /\ answer' = [op |-> "add", v |-> answer.result,
                  result |-> Point_add(shape.q, answer.result)]
    /\ UNCHANGED <<builder, shape, heatVars>>

\* p and q go out of scope
PointsDropped ==
    /\ shape.kind = "Points"
    /\ shape' = [kind |-> "none"]
    /\ answer' = [op |-> "none"]
    /\ UNCHANGED <<builder, heatVars>>

PointNext ==
    \/ \E p \in Positions, q \in Positions : PointsNew(p, q)
    \/ CallPointSub
    \/ CallPointAdd
    \/ PointsDropped

SpecPoint == PointInit /\ [][PointNext]_vars

---------------------------------------------------------------------------
(* Helpers of the claims *)

\* width * height of h fits in 32 bits.
Fits(h) == ~MulU32(h.width, h.height).overflow

\* The coordinates of the model that are in range for h.
InRange(h) == {p \in Coords \X Coords : p[1] < h.width /\ p[2] < h.height}

\* The cell of h at an in-range coordinate p of a heatmap whose product fits:
\* row-major, position p[2] * width + p[1].
CellAt(h, p) == h.inner[p[2] * h.width + p[1] + 1]

\* n = width * height over the integers (not modulo 2^32).
IsProduct(n, width, height) ==
    LET m == MulU32(width, height) IN ~m.overflow /\ n = m.value

\* q rounded to the nearest integer, for q = num / den >= 0 and den > 0.
RoundQ(q) == (2 * q.num + q.den) \div (2 * q.den)

---------------------------------------------------------------------------
(* C1 *)

\* C1 (as claimed), on operands whose width * height fits in 32 bits: after
\* A + B or A += B the result has dimensions (min(wA,wB), min(hA,hB)) and its
\* cell at every (x, y) in range is A's cell at (x, y) plus B's cell at (x, y).
C1_MergeIsCellwiseSum ==
    (last.op \in {"add", "add_assign"} /\ Fits(last.prev) /\ Fits(last.other)) =>
        /\ IsOk(last.out)
        /\ heatmap.width = Min(last.prev.width, last.other.width)
        /\ heatmap.height = Min(last.prev.height, last.other.height)
        /\ \A p \in InRange(heatmap) :
             get_pixel(overflow_checks, heatmap, p[1], p[2])
               = Ok(Some(CellAt(last.prev, p) + CellAt(last.other, p)))

\* C1, where it stands: the same statement for operands of equal width.
C1_MergeIsCellwiseSumOnEqualWidths ==
    (/\ last.op \in {"add", "add_assign"}
     /\ Fits(last.prev) /\ Fits(last.other)
     /\ last.prev.width = last.other.width) =>
        /\ IsOk(last.out)
        /\ heatmap.width = Min(last.prev.width, last.other.width)
        /\ heatmap.height = Min(last.prev.height, last.other.height)
        /\ \A p \in InRange(heatmap) :
             get_pixel(overflow_checks, heatmap, p[1], p[2])
               = Ok(Some(CellAt(last.prev, p) + CellAt(last.other, p)))

---------------------------------------------------------------------------
(* C2 *)

\* The statement of C2 about the heatmap from_fn(width, height, f) returned.
FromFnExact ==
    /\ \A p \in InRange(heatmap) :
         get_pixel(overflow_checks, heatmap, p[1], p[2])
           = Ok(Some(Apply(last.f, p[1], p[2])))
    /\ IsProduct(Len(heatmap.inner), last.width, last.height)
    /\ \A p \in InRange(heatmap) :
         /\ heatmap.inner[p[2] * last.width + p[1] + 1] = Apply(last.f, p[1], p[2])
         /\ Cardinality({i \in 1..Len(last.calls) : last.calls[i] = p}) = 1

\* C2 (as claimed): for every width, height and f, the heatmap built by
\* from_fn(width, height, f) returns f(x, y) from get_pixel(x, y) at every
\* coordinate in range, holds f(0,0), f(1,0), ... in row-major order, and f was
\* invoked exactly once per coordinate.
C2_FromFnHoldsF ==
    (last.op = "from_fn" /\ IsOk(last.out)) => FromFnExact

\* C2, where it stands: the same statement when width * height fits in 32 bits.
C2_FromFnHoldsFWhenFits ==
    (last.op = "from_fn" /\ IsOk(last.out) /\ Fits(heatmap)) => FromFnExact

---------------------------------------------------------------------------
(* C3 *)

\* The statement of C3 about the last get_pixel / get_pixel_mut call.
AccessorChecked ==
    /\ ~IsPanic(last.out)
    /\ (last.x >= heatmap.width \/ last.y >= heatmap.height) => last.out.val = None
    /\ (last.x < heatmap.width /\ last.y < heatmap.height) => last.out.val.tag = "some"

\* C3 (as claimed): in every reachable state get_pixel and get_pixel_mut return
\* an absent result out of range, a present cell in range, and never fault.
C3_AccessorsNeverFault ==
    (last.op \in {"get_pixel", "get_pixel_mut"}) => AccessorChecked

\* C3, where it stands: the same statement when width * height fits in 32 bits.
C3_AccessorsNeverFaultWhenFits ==
    (last.op \in {"get_pixel", "get_pixel_mut"} /\ Fits(heatmap)) => AccessorChecked

---------------------------------------------------------------------------
(* C4 *)

\* C4 (as claimed): in every reachable state the number of cells stored equals
\* width x height.
C4_LengthIsWidthTimesHeight ==
    IsProduct(Len(heatmap.inner), heatmap.width, heatmap.height)

\* C4, what the code keeps: the number of cells is width * height modulo 2^32.
C4_LengthIsWrappedProduct ==
    Len(heatmap.inner) = MulU32(heatmap.width, heatmap.height).value

---------------------------------------------------------------------------
(* C5 *)

\* r1 + r2 for outcomes of earlier merges: a panic of either side is the panic
\* of the whole expression.
AddOutcomes(r1, r2) ==
    IF IsPanic(r1) \/ IsPanic(r2)
    THEN Panic("any")
    ELSE LET r == Heatmap_add(overflow_checks, r1.val, r2.val)
         IN  IF IsPanic(r) THEN Panic("any") ELSE r

\* The statement of C5 for the per-worker heatmaps A, B and C.
MergeOrderFree(A, B, C) ==
    /\ AddOutcomes(Ok(A), Ok(B)) = AddOutcomes(Ok(B), Ok(A))
    /\ AddOutcomes(AddOutcomes(Ok(A), Ok(B)), Ok(C))
         = AddOutcomes(Ok(A), AddOutcomes(Ok(B), Ok(C)))
    /\ (/\ A.width = B.width /\ B.width = C.width
        /\ A.height = B.height /\ B.height = C.height) =>
          LET r == AddOutcomes(AddOutcomes(Ok(A), Ok(B)), Ok(C))
          IN  /\ IsOk(r)
              /\ \A p \in InRange(A) :
                   get_pixel(overflow_checks, r.val, p[1], p[2])
                     = Ok(Some(A.inner[p[2] * A.width + p[1] + 1]
                               + B.inner[p[2] * A.width + p[1] + 1]
                               + C.inner[p[2] * A.width + p[1] + 1]))

\* C5 (as claimed): the combination of per-worker heatmaps is the same for every
\* order and grouping of the merges, and for heatmaps of equal dimensions every
\* cell is the sum of the workers' values for that cell.
C5_MergeOrderFree ==
    \A B \in Operands, C \in Operands : MergeOrderFree(heatmap, B, C)

\* C5, where it stands: the same statement for heatmaps whose width * height
\* fits in 32 bits.
C5_MergeOrderFreeWhenFits ==
    \A B \in Operands, C \in Operands :
        (Fits(heatmap) /\ Fits(B) /\ Fits(C)) => MergeOrderFree(heatmap, B, C)

---------------------------------------------------------------------------
(* C6 *)

\* The statement of C6 about the last clear() call.
ClearedToZero ==
    /\ IsOk(last.out)
    /\ heatmap.width = last.prev.width
    /\ heatmap.height = last.prev.height
    /\ \A p \in InRange(heatmap) :
         get_pixel(overflow_checks, heatmap, p[1], p[2]) = Ok(Some(0))

\* C6 (as claimed): after clear() in any reachable state, width and height are
\* unchanged and get_pixel returns 0 at every coordinate in range.
C6_ClearZeroes ==
    (last.op = "clear") => ClearedToZero

\* C6, where it stands: the same statement when width * height fits in 32 bits.
C6_ClearZeroesWhenFits ==
    (last.op = "clear" /\ Fits(last.prev)) => ClearedToZero

---------------------------------------------------------------------------
(* C7 *)

\* The raster r has the dimensions of h and each pixel is conv applied to
\* 255 * (cell / max_cell) ^ gamma.
RasterIs(r, h, gamma, conv(_)) ==
    /\ IsOk(r)
    /\ r.val.width = h.width
    /\ r.val.height = h.height
    /\ \A p \in InRange(h) :
         r.val.px[p] = conv(ScaledPx(CellAt(h, p), max_heat(h), gamma))

\* C7 (as claimed), on heatmaps whose width * height fits in 32 bits: when the
\* maximum cell is greater than 0, to_luma8 and to_luma16 give a width x height
\* raster whose pixel at (x, y) is round(255 * (cell / max_cell) ^ gamma), and
\* leave the heatmap unchanged.
C7_ExportRounds ==
    (/\ last.op \in {"to_luma8", "to_luma16"}
     /\ Fits(last.prev)
     /\ max_heat(last.prev) > 0) =>
        /\ RasterIs(last.out, last.prev, last.gamma, RoundQ)
        /\ heatmap = last.prev

\* C7, what the code computes: the same statement with the value truncated
\* toward zero instead of rounded.
C7_ExportTruncates ==
    (/\ last.op \in {"to_luma8", "to_luma16"}
     /\ Fits(last.prev)
     /\ max_heat(last.prev) > 0) =>
        /\ RasterIs(last.out, last.prev, last.gamma,
                    LAMBDA q : q.num \div q.den)
        /\ heatmap = last.prev

---------------------------------------------------------------------------
(* C8 *)

Max(a, b) == IF a < b THEN b ELSE a

\* C8: Rectangle::is_valid is true if and only if
\* max(width, height) / min(width, height) <= 5.0, whichever side is the larger
\* and whatever the origin and the angle; the ratio 5.0 itself is valid
\* (25 x 5 and 5 x 25 valid, 30 x 5 and 5 x 30 invalid).
C8_ValidIffAspectAtMostFive ==
    (answer.op = "is_valid" /\ shape.kind = "Rectangle") =>
        LET w == shape.scaling[1]
            h == shape.scaling[2]
        IN  /\ answer.result = DivLe(Max(w, h), Min(w, h), 5)
            /\ ({w, h} = {25, 5}) => answer.result
            /\ ({w, h} = {30, 5}) => ~answer.result

\* C8's case: is_valid has answered for a rotated 5 x 25 rectangle away from the
\* origin (the height is the larger side, the ratio is exactly 5.0).
C8_Witness ==
    /\ answer.op = "is_valid"
    /\ shape.kind = "Rectangle"
    /\ shape.scaling = <<5, 25>>
    /\ shape.angle # 0
    /\ shape.origin # Point_new(0, 0)
    /\ answer.result

---------------------------------------------------------------------------
(* C9 *)

\* The signed cross product of the edge into vertex i + 1 and the edge out of
\* it, for the cyclic triple of vertices i, i + 1, i + 2 (Rust indices).
TurnAt(vs, i) ==
    LET n == Len(vs)
        p == vs[(i % n) + 1]
        q == vs[((i + 1) % n) + 1]
        r == vs[((i + 2) % n) + 1]
    IN  (q.x - p.x) * (r.y - q.y) - (q.y - p.y) * (r.x - q.x)

\* C9 (as claimed): Polygon::is_valid is true if and only if the polygon has at
\* least 3 vertices and the cross products over every cyclic triple of
\* consecutive vertices are all strictly positive or all strictly negative.
C9_ValidIffStrictlyConvex ==
    (answer.op = "is_valid" /\ shape.kind = "Polygon") =>
        LET vs == shape.vertices
            n == Len(vs)
        IN  answer.result =
              (/\ n >= 3
               /\ \/ \A i \in 0..(n - 1) : TurnAt(vs, i) > 0
                  \/ \A i \in 0..(n - 1) : TurnAt(vs, i) < 0)

\* C9, what the code computes: true if and only if the polygon has at least 3
\* vertices and the cross products are all strictly positive or all negative
\* or zero.
C9_ValidIffNoSignChange ==
    (answer.op = "is_valid" /\ shape.kind = "Polygon") =>
        LET vs == shape.vertices
            n == Len(vs)
        IN  answer.result =
              (/\ n >= 3
               /\ \/ \A i \in 0..(n - 1) : TurnAt(vs, i) > 0
                  \/ \A i \in 0..(n - 1) : TurnAt(vs, i) <= 0)

---------------------------------------------------------------------------
(* C10 *)

\* |d| on f64
F64Abs(d) == IF F64Lt(d, F64(0, 0)) THEN F64(0 - d.whole, 0 - d.half_eps) ELSE d

\* C10 (as claimed): is_circle is true if and only if |a - b| < f64::EPSILON,
\* for a > b and for a < b.
C10_CircleIffAxesWithinEpsilon ==
    (answer.op = "is_circle" /\ shape.kind = "Ellipse") =>
        answer.result = F64Lt(F64Abs(F64Sub(shape.a, shape.b)), EPSILON)

\* C10, what the code computes: true if and only if a - b < f64::EPSILON, which
\* every a < b satisfies.
C10_CircleIffDifferenceBelowEpsilon ==
    (answer.op = "is_circle" /\ shape.kind = "Ellipse") =>
        answer.result = (\/ F64Lt(shape.a, shape.b)
                         \/ F64Lt(F64Abs(F64Sub(shape.a, shape.b)), EPSILON))

---------------------------------------------------------------------------
(* C11 *)

\* The validity rule of each variant: the aspect-ratio rule for Rectangle, the
\* minimum-angle rule for Triangle, the convexity rule for Polygon, always
\* true for Ellipse.
VariantRule(s) ==
    CASE s.kind = "Rectangle" -> Rectangle_is_valid(s)
      [] s.kind = "Triangle" -> Triangle_is_valid(s)
      [] s.kind = "Polygon" -> Polygon_is_valid(s)
      [] s.kind = "Ellipse" -> TRUE

\* C11 (as claimed): for each of the four variants, is_valid called through
\* the Shape trait returns what the variant's own validity rule returns.
C11_DispatchIsVariantRule ==
    answer.op = "Shape::is_valid" => answer.result = VariantRule(shape)

\* C11, what the code computes: through the Shape trait, is_valid is the
\* aspect-ratio rule for a Rectangle and true for every Ellipse, Triangle and
\* Polygon; the rules of Triangle and Polygon answer only a call on the
\* concrete type.
C11_DispatchIsRectangleRuleOrTrue ==
    /\ answer.op = "Shape::is_valid" =>
           answer.result = (shape.kind = "Rectangle" => Rectangle_is_valid(shape))
    /\ answer.op = "is_valid" => answer.result = VariantRule(shape)

---------------------------------------------------------------------------
(* C12 *)

\* C12 (as claimed): for all points p and q, p - q is the displacement
\* (p.x - q.x, p.y - q.y) and q + (p - q) has the coordinates of p.
C12_SubThenAddReturnsP ==
    answer.op = "add" =>
        /\ answer.v = [x |-> shape.p.x - shape.q.x, y |-> shape.p.y - shape.q.y]
        /\ answer.result = shape.p

\* C12, what the code computes: p - q is (q.x - p.x, q.y - p.y), the
\* displacement from p to q, and q + (p - q) is the mirror image of p in q.
C12_SubIsReversed ==
    answer.op = "add" =>
        /\ answer.v = [x |-> shape.q.x - shape.p.x, y |-> shape.q.y - shape.p.y]
        /\ answer.result = [x |-> 2 * shape.q.x - shape.p.x,
                            y |-> 2 * shape.q.y - shape.p.y]

===========================================================================
